---- MODULE Spec2Model ----
(***************************************************************************)
(* The migration dashboard of streamlit_app.py as a state machine.         *)
(*                                                                         *)
(* A Streamlit script runs top to bottom on every interaction.  The state  *)
(* is the CSV file on disk, the session (st.cache_data memo and widget     *)
(* values), the variables of the script run in progress, and the list of   *)
(* elements that run has sent to the page so far.  Each section of the     *)
(* script (the source separates them with banner comments) is one action.  *)
(*                                                                         *)
(* Text is a sequence of tokens: " " is one whitespace character, any      *)
(* other token is a word without whitespace.  An object cell is            *)
(* [na, txt]; a float cell is [nan, v] where v counts halves, so that      *)
(* v = 3 is 1.5 and truncation to an integer is not the identity.          *)
(***************************************************************************)
EXTENDS Integers, Sequences, FiniteSets

VARIABLES
    file,             \* data/migration_2020_clean.csv: [status, rows]
    strKeepsNA,       \* pandas build: Series.astype(str) keeps missing values
    tieBreak,         \* numpy build: order argsort(kind="quicksort") gives ties
    cache,            \* st.cache_data memo of load_data(): [hit, value]
    widgets,          \* session widget state: [touched, origin, top_n]
    pc,               \* section of the script the run is about to execute
    rendered,         \* elements sent to the page in this run, in order
    df,
    origin_countries,
    selected_origin,
    top_n,
    filtered_df,
    total_abroad,
    num_destinations,
    top_destinations,
    top_flows,
    labels,
    source,
    target,
    values

vars == <<file, strKeepsNA, tieBreak, cache, widgets, pc, rendered, df,
          origin_countries, selected_origin, top_n, filtered_df, total_abroad,
          num_destinations, top_destinations, top_flows, labels, source,
          target, values>>

scriptVars == <<df, origin_countries, selected_origin, top_n, filtered_df,
                total_abroad, num_destinations, top_destinations, top_flows,
                labels, source, target, values>>

----------------------------------------------------------------------------
(* Bounds of the model.                                                    *)

MaxRows == 6        \* rows of a clean file (the interactive specification)
MaxSrcRows == 2     \* rows of a dirty file (the loader specification)

----------------------------------------------------------------------------
(* Values.                                                                 *)

NA == [na |-> TRUE, txt |-> <<>>]
Str(s) == [na |-> FALSE, txt |-> s]
NaN == [nan |-> TRUE, v |-> 0]
Num(v) == [nan |-> FALSE, v |-> v]

\* Code-point order of the tokens that occur: space, capitals, lower case.
Alphabet == <<" ", "Chad", "Eritrea", "Kenya", "Sudan", "Uganda", "nan">>

Rank(tok) == CHOOSE i \in 1..Len(Alphabet) : Alphabet[i] = tok

Min(a, b) == IF a <= b THEN a ELSE b

Reverse(s) == [i \in 1..Len(s) |-> s[Len(s) + 1 - i]]

Range(s) == {s[i] : i \in 1..Len(s)}

\* Python's < on str, lexicographic by code point.
RECURSIVE StrLess(_, _)
StrLess(a, b) ==
    IF b = <<>> THEN FALSE
    ELSE IF a = <<>> THEN TRUE
    ELSE IF Head(a) # Head(b) THEN Rank(Head(a)) < Rank(Head(b))
    ELSE StrLess(Tail(a), Tail(b))

\* str.strip(): leading and trailing whitespace removed.
RECURSIVE LStrip(_)
LStrip(s) == IF s # <<>> /\ Head(s) = " " THEN LStrip(Tail(s)) ELSE s

strip(s) == Reverse(LStrip(Reverse(LStrip(s))))

----------------------------------------------------------------------------
(* pandas and numpy.                                                       *)

\* pd.read_csv: one frame row per file row, index 0, 1, 2, ...; an empty or
\* NA-marker field is missing, an unparsed Value field stays text.
read_csv(f) ==
    [i \in 1..Len(f.rows) |->
        [idx |-> i - 1,
         Origin |-> f.rows[i].Origin,
         Destination |-> f.rows[i].Destination,
         Value |-> f.rows[i].Value]]

\* Series.astype(str): before pandas 3 a missing value becomes the text "nan";
\* from pandas 3 on it stays missing.
astype_str(cell, keepsNA) ==
    IF cell.na THEN (IF keepsNA THEN NA ELSE Str(<<"nan">>)) ELSE cell

\* Series.str.strip(): missing stays missing.
str_strip(cell) == IF cell.na THEN NA ELSE Str(strip(cell.txt))

\* pd.to_numeric(errors="coerce"): what does not parse becomes NaN.
to_numeric(cell) == IF cell.kind = "num" THEN Num(cell.v) ELSE NaN

\* DataFrame.dropna(subset=[Origin, Destination, Value]); index labels kept.
dropna(frame) ==
    SelectSeq(frame, LAMBDA r : ~r.Origin.na /\ ~r.Destination.na /\ ~r.Value.nan)

\* Mutant of NonNegative: the comparison written  Value > 0.
NonNegative_Strict(r) == ~r.Value.nan /\ r.Value.v > 0

\* The comparison  Value >= 0  (False on NaN).
NonNegative(r) == ~r.Value.nan /\ r.Value.v >= 0

\* load_data(), the body.
load_data(f, keepsNA) ==
    LET raw == read_csv(f)
        typed == [i \in 1..Len(raw) |->
                    [idx |-> raw[i].idx,
                     Origin |-> str_strip(astype_str(raw[i].Origin, keepsNA)),
                     Destination |-> str_strip(astype_str(raw[i].Destination, keepsNA)),
                     Value |-> to_numeric(raw[i].Value)]]
    IN  SelectSeq(dropna(typed), NonNegative)

\* Priority among equal keys of an argsort input of length n, by position:
\* kind="quicksort" promises no order for ties, so the build decides.
\* "stable" keeps input order, "reverse" inverts it, "rotate" puts the last
\* position first.
TiePriority(tb, n) ==
    [i \in 1..n |->
        IF tb = "stable" THEN i
        ELSE IF tb = "reverse" THEN n + 1 - i
        ELSE (i % n) + 1]

RECURSIVE SortPositions(_, _, _)
SortPositions(S, a, pri) ==
    IF S = {} THEN <<>>
    ELSE LET m == CHOOSE i \in S : \A j \in S \ {i} :
                      a[i] < a[j] \/ (a[i] = a[j] /\ pri[i] < pri[j])
         IN  <<m>> \o SortPositions(S \ {m}, a, pri)

\* ndarray.argsort(kind="quicksort"): positions of a in ascending key order.
argsort(a, tb) == SortPositions(1..Len(a), a, TiePriority(tb, Len(a)))

\* pandas.core.sorting.nargsort, which Series.sort_values calls: a descending
\* sort reverses the input, sorts ascending and reverses the result; NaN last.
nargsort(items, ascending, tb) ==
    LET idx == [i \in 1..Len(items) |-> i]
        keep == SelectSeq(idx, LAMBDA i : ~items[i].nan)
        nan_idx == SelectSeq(idx, LAMBDA i : items[i].nan)
        non_nan_idx == IF ascending THEN keep ELSE Reverse(keep)
        non_nans == [k \in 1..Len(non_nan_idx) |-> items[non_nan_idx[k]].v]
        order == argsort(non_nans, tb)
        indexer == [k \in 1..Len(order) |-> non_nan_idx[order[k]]]
    IN  (IF ascending THEN indexer ELSE Reverse(indexer)) \o nan_idx

\* DataFrame.sort_values("Value", ascending=...), default kind.
sort_values(frame, ascending, tb) ==
    LET indexer == nargsort([i \in 1..Len(frame) |-> frame[i].Value], ascending, tb)
    IN  [k \in 1..Len(frame) |-> frame[indexer[k]]]

\* DataFrame.head(n).
head(frame, n) == SubSeq(frame, 1, Min(n, Len(frame)))

\* Series.unique(): distinct values in order of first appearance.
RECURSIVE unique(_)
unique(col) ==
    IF col = <<>> THEN <<>>
    ELSE LET init == unique(SubSeq(col, 1, Len(col) - 1))
             last == col[Len(col)]
         IN  IF last \in Range(init) THEN init ELSE Append(init, last)

\* sorted() of a list of str.
RECURSIVE sorted(_)
sorted(l) ==
    IF l = <<>> THEN <<>>
    ELSE LET m == CHOOSE i \in 1..Len(l) : \A j \in 1..Len(l) :
                      ~StrLess(l[j], l[i]) /\ (l[j] = l[i] => i <= j)
         IN  <<l[m]>> \o sorted(SubSeq(l, 1, m - 1) \o SubSeq(l, m + 1, Len(l)))

\* Elementwise  Origin == key : False on a missing value and on None.
ObjEq(cell, key) == ~cell.na /\ ~key.na /\ cell.txt = key.txt

\* Mutant of Filter: the mask written with != .
Filter_NotEqual(frame, key) == SelectSeq(frame, LAMBDA r : ~ObjEq(r.Origin, key))

\* df[df["Origin"] == selected_origin].copy()
Filter(frame, key) == SelectSeq(frame, LAMBDA r : ObjEq(r.Origin, key))

\* Mutant of Truncate: rounding half up (round() in place of int()).
Truncate_Round(v) == (v + 1) \div 2

\* int(x) and astype(int) on a float: truncation toward zero.
Truncate(v) == IF v >= 0 THEN v \div 2 ELSE -((-v) \div 2)

RECURSIVE SumValue(_)
SumValue(frame) ==
    IF frame = <<>> THEN 0 ELSE frame[1].Value.v + SumValue(Tail(frame))

\* Series.nunique().
nunique(col) == Cardinality(Range(col))

Column(frame, name) == [i \in 1..Len(frame) |-> frame[i][name]]
----------------------------------------------------------------------------
(* Streamlit.                                                              *)

None == [na |-> TRUE, txt |-> <<>>]

min_value == 5
max_value == 25
value == 10

\* Positions of the slider the model lets the user pick.
TopNChoices == {min_value, value, max_value}

\* list.index(x), counted from 0.
index(l, x) == (CHOOSE i \in 1..Len(l) : l[i] = x /\ \A j \in 1..(i - 1) : l[j] # x) - 1

\* Mutant of default_index: the index argument left out.
default_index_Zero(options) == 0

\* index=... argument of the selectbox.
default_index(options) ==
    IF <<"Eritrea">> \in Range(options) THEN index(options, <<"Eritrea">>) ELSE 0

\* st.sidebar.selectbox: the user's choice while it is among the options,
\* else the option at the default index; None when there are no options.
selectbox(options, w) ==
    IF w.touched /\ w.origin \in Range(options) THEN Str(w.origin)
    ELSE IF options = <<>> THEN None
    ELSE Str(options[default_index(options) + 1])

\* st.sidebar.slider: the user's position, initially value.
slider(w) == w.top_n

\* Mutant of cached_load_data: a hit hands out the memo object itself, which
\* an in-place descending sort of an earlier run has reordered.
cached_load_data_Shared(c, f, keepsNA) ==
    IF c.hit THEN sort_values(c.value, FALSE, "stable") ELSE load_data(f, keepsNA)

\* @st.cache_data: the body runs on a miss, a hit returns a copy of the memo.
cached_load_data(c, f, keepsNA) ==
    IF c.hit THEN c.value ELSE load_data(f, keepsNA)

\* Mutant of empty: the guard left out, as in a dashboard without it.
empty_Never(frame) == FALSE

\* filtered_df.empty
empty(frame) == Len(frame) = 0

\* The descending sort and cut that both charts start from.
top_rows(frame, n, tb) == head(sort_values(frame, FALSE, tb), n)

\* Mutant of TopDestinations: the ascending re-sort left out.
TopDestinations_NoResort(frame, n, tb) == top_rows(frame, n, tb)

\* Lines 122-126.
TopDestinations(frame, n, tb) == sort_values(top_rows(frame, n, tb), TRUE, tb)

----------------------------------------------------------------------------
(* The script, section by section.                                         *)

Fresh ==
    /\ df' = <<>>
    /\ origin_countries' = <<>>
    /\ selected_origin' = None
    /\ top_n' = 0
    /\ filtered_df' = <<>>
    /\ total_abroad' = 0
    /\ num_destinations' = 0
    /\ top_destinations' = <<>>
    /\ top_flows' = <<>>
    /\ labels' = <<>>
    /\ source' = <<>>
    /\ target' = <<>>
    /\ values' = <<>>

\* Lines 9-32: page config, title, dataset description.
PageSetup ==
    /\ pc = "page_setup"
    /\ rendered' = rendered \o <<"title", "description">>
    /\ pc' = "load"
    /\ UNCHANGED <<file, strKeepsNA, tieBreak, cache, widgets, scriptVars>>

\* Lines 37-53: df = load_data() and the preview expander.
LoadData ==
    /\ pc = "load"
    /\ cache.hit \/ file.status = "ok"
    /\ df' = cached_load_data(cache, file, strKeepsNA)
    /\ cache' = IF cache.hit THEN cache ELSE [hit |-> TRUE, value |-> df']
    /\ rendered' = Append(rendered, "preview")
    /\ pc' = "sidebar"
    /\ UNCHANGED <<file, strKeepsNA, tieBreak, widgets, origin_countries,
                   selected_origin, top_n, filtered_df, total_abroad,
                   num_destinations, top_destinations, top_flows, labels,
                   source, target, values>>

\* Line 39 raising (no file, or one pd.read_csv cannot parse): the exception
\* leaves load_data and the script; Streamlit shows it and ends the run.
LoadFails ==
    /\ pc = "load"
    /\ ~cache.hit /\ file.status # "ok"
    /\ rendered' = Append(rendered, "exception")
    /\ pc' = "crashed"
    /\ UNCHANGED <<file, strKeepsNA, tieBreak, cache, widgets, scriptVars>>

\* Lines 58-74: the two widgets and the filter.
SidebarControls ==
    /\ pc = "sidebar"
    /\ origin_countries' = sorted(unique(Column(Column(df, "Origin"), "txt")))
    /\ selected_origin' = selectbox(origin_countries', widgets)
    /\ top_n' = slider(widgets)
    /\ filtered_df' = Filter(df, selected_origin')
    /\ rendered' = Append(rendered, "sidebar")
    /\ pc' = "check"
    /\ UNCHANGED <<file, strKeepsNA, tieBreak, cache, widgets, df, total_abroad,
                   num_destinations, top_destinations, top_flows, labels,
                   source, target, values>>

\* Lines 76-78: st.error and st.stop().
EmptyStop ==
    /\ pc = "check"
    /\ empty(filtered_df)
    /\ rendered' = Append(rendered, "error")
    /\ pc' = "stopped"
    /\ UNCHANGED <<file, strKeepsNA, tieBreak, cache, widgets, scriptVars>>

\* Lines 83-91.
SummaryMetrics ==
    /\ pc = "check"
    /\ ~empty(filtered_df)
    /\ total_abroad' = Truncate(SumValue(filtered_df))
    /\ num_destinations' = nunique(Column(filtered_df, "Destination"))
    /\ rendered' = Append(rendered, "metrics")
    /\ pc' = "map"
    /\ UNCHANGED <<file, strKeepsNA, tieBreak, cache, widgets, df,
                   origin_countries, selected_origin, top_n, filtered_df,
                   top_destinations, top_flows, labels, source, target, values>>

\* Lines 96-115.
WorldMap ==
    /\ pc = "map"
    /\ rendered' = Append(rendered, "map")
    /\ pc' = "ranking"
    /\ UNCHANGED <<file, strKeepsNA, tieBreak, cache, widgets, scriptVars>>

\* Lines 120-159.
Ranking ==
    /\ pc = "ranking"
    /\ top_destinations' = TopDestinations(filtered_df, top_n, tieBreak)
    /\ rendered' = Append(rendered, "bar")
    /\ pc' = "flow"
    /\ UNCHANGED <<file, strKeepsNA, tieBreak, cache, widgets, df,
                   origin_countries, selected_origin, top_n, filtered_df,
                   total_abroad, num_destinations, top_flows, labels, source,
                   target, values>>

\* Lines 164-203.
SankeyFlow ==
    /\ pc = "flow"
    /\ top_flows' = top_rows(filtered_df, top_n, tieBreak)
    /\ labels' = <<selected_origin.txt>>
                    \o Column(Column(top_flows', "Destination"), "txt")
    /\ source' = [i \in 1..Len(top_flows') |-> 0]
    /\ target' = [i \in 1..Len(top_flows') |-> i]
    /\ values' = [i \in 1..Len(top_flows') |-> Truncate(top_flows'[i].Value.v)]
    /\ rendered' = Append(rendered, "sankey")
    /\ pc' = "interpretation"
    /\ UNCHANGED <<file, strKeepsNA, tieBreak, cache, widgets, df,
                   origin_countries, selected_origin, top_n, filtered_df,
                   total_abroad, num_destinations, top_destinations>>

\* Lines 208-216.
Interpretation ==
    /\ pc = "interpretation"
    /\ rendered' = Append(rendered, "interpretation")
    /\ pc' = "done"
    /\ UNCHANGED <<file, strKeepsNA, tieBreak, cache, widgets, scriptVars>>

----------------------------------------------------------------------------
(* The user.  A widget change, or a plain rerun, starts the script again   *)
(* from the top with fresh script variables; the session is kept.          *)

SelectOrigin(o) ==
    /\ "sidebar" \in Range(rendered)
    /\ o \in Range(origin_countries)
    /\ Str(o) # selected_origin
    /\ widgets' = [widgets EXCEPT !.touched = TRUE, !.origin = o]
    /\ rendered' = <<>>
    /\ pc' = "page_setup"
    /\ Fresh
    /\ UNCHANGED <<file, strKeepsNA, tieBreak, cache>>

SlideTopN(n) ==
    /\ "sidebar" \in Range(rendered)
    /\ n # top_n
    /\ widgets' = [widgets EXCEPT !.top_n = n]
    /\ rendered' = <<>>
    /\ pc' = "page_setup"
    /\ Fresh
    /\ UNCHANGED <<file, strKeepsNA, tieBreak, cache>>

Rerun ==
    /\ pc \in {"done", "stopped", "crashed"}
    /\ rendered' = <<>>
    /\ pc' = "page_setup"
    /\ Fresh
    /\ UNCHANGED <<file, strKeepsNA, tieBreak, cache, widgets>>

Next ==
    \/ PageSetup
    \/ LoadData
    \/ LoadFails
    \/ SidebarControls
    \/ EmptyStop
    \/ SummaryMetrics
    \/ WorldMap
    \/ Ranking
    \/ SankeyFlow
    \/ Interpretation
    \/ \E o \in Range(origin_countries) : SelectOrigin(o)
    \/ \E n \in TopNChoices : SlideTopN(n)
    \/ Rerun

----------------------------------------------------------------------------
(* Files.                                                                  *)

\* A missing field, a padded name, a field of whitespace only.
OriginCells == {NA, Str(<<" ", "Eritrea">>), Str(<<" ">>)}
DestinationCells == {NA, Str(<<"Kenya", " ">>)}
ValueCells == {[kind |-> "na", v |-> 0], [kind |-> "text", v |-> 0],
               [kind |-> "num", v |-> -2], [kind |-> "num", v |-> 0],
               [kind |-> "num", v |-> 3]}

SrcRows == [Origin : OriginCells, Destination : DestinationCells, Value : ValueCells]

\* Files as they may arrive: any mix of missing, padded, unparsable and
\* negative fields, or no readable file at all.
DirtyFiles ==
    {[status |-> "ok", rows |-> r] :
        r \in UNION {[1..L -> SrcRows] : L \in 0..MaxSrcRows}}
    \cup {[status |-> "absent", rows |-> <<>>], [status |-> "unparsable", rows |-> <<>>]}

DestinationNames == <<"Kenya", "Chad", "Uganda", "Sudan">>
CleanValues == {3, 4}

\* A clean file of L rows: row s (if any) has origin Chad, the others
\* Eritrea; values free, so ties occur; destinations cycle through the names.
CleanRows(L, s, vals) ==
    [i \in 1..L |->
        [Origin |-> Str(IF i = s THEN <<"Chad">> ELSE <<"Eritrea">>),
         Destination |-> Str(<<DestinationNames[((i - 1) % Len(DestinationNames)) + 1]>>),
         Value |-> [kind |-> "num", v |-> vals[i]]]]

CleanFiles ==
    UNION {{[status |-> "ok", rows |-> CleanRows(L, s, vals)] :
               s \in 0..L, vals \in [1..L -> CleanValues]} : L \in 0..MaxRows}
    \cup {[status |-> "absent", rows |-> <<>>]}

InitSession ==
    /\ cache = [hit |-> FALSE, value |-> <<>>]
    /\ widgets = [touched |-> FALSE, origin |-> <<>>, top_n |-> value]
    /\ pc = "page_setup"
    /\ rendered = <<>>
    /\ df = <<>>
    /\ origin_countries = <<>>
    /\ selected_origin = None
    /\ top_n = 0
    /\ filtered_df = <<>>
    /\ total_abroad = 0
    /\ num_destinations = 0
    /\ top_destinations = <<>>
    /\ top_flows = <<>>
    /\ labels = <<>>
    /\ source = <<>>
    /\ target = <<>>
    /\ values = <<>>

\* The dashboard over clean files, on every tie order of the sort.
\* A clean file has no missing field, so both behaviours of astype(str)
\* give the same Table and one is taken.
Init ==
    /\ file \in CleanFiles
    /\ strKeepsNA = FALSE
    /\ tieBreak \in {"stable", "reverse", "rotate"}
    /\ InitSession

Spec == Init /\ [][Next]_vars

\* The dashboard over dirty files, on both behaviours of astype(str).
\* The load does not sort, so one tie order is taken.
InitLoader ==
    /\ file \in DirtyFiles
    /\ strKeepsNA \in BOOLEAN
    /\ tieBreak = "stable"
    /\ InitSession

LoaderSpec == InitLoader /\ [][Next]_vars
----------------------------------------------------------------------------
(* Properties.                                                             *)

Loaded == pc \notin {"page_setup", "load", "crashed"}
Filtered == Loaded /\ pc # "sidebar"
Charted == pc \in {"interpretation", "done"}

Elements == Range(rendered)
Charts == {"metrics", "map", "bar", "sankey"}

RowsWithOrigin(k) == {i \in DOMAIN df : ~df[i].Origin.na /\ df[i].Origin.txt = k}
Origins == {df[i].Origin.txt : i \in DOMAIN df}
NonIncreasing(frame) ==
    \A i \in DOMAIN frame : \A j \in DOMAIN frame :
        i < j => frame[i].Value.v >= frame[j].Value.v
HasTie(frame) ==
    \E i \in DOMAIN frame : \E j \in DOMAIN frame :
        i < j /\ frame[i].Value.v = frame[j].Value.v

\* C1: the filter returns exactly the rows of the Table whose Origin is the
\* key, in Table order, and the subsets for the origins that occur partition
\* the Table: every row is in the subset of exactly one origin.
C1_FilterPartitions ==
    Filtered =>
        /\ \A i \in DOMAIN df :
              (df[i] \in Range(filtered_df)) <=> (df[i].Origin = selected_origin)
        /\ Range(filtered_df) \subseteq Range(df)
        /\ Len(filtered_df) = Cardinality(Range(filtered_df))
        /\ \A i \in DOMAIN filtered_df : \A j \in DOMAIN filtered_df :
              i < j => filtered_df[i].idx < filtered_df[j].idx
        /\ \A k \in Origins :
              Range(Filter(df, Str(k))) = {df[i] : i \in RowsWithOrigin(k)}
        /\ \A i \in DOMAIN df :
              Cardinality({k \in Origins : df[i] \in Range(Filter(df, Str(k)))}) = 1

C1_Witness ==
    /\ Filtered
    /\ Len(filtered_df) >= 2
    /\ Len(filtered_df) < Len(df)
    /\ \E i \in DOMAIN df : df[i] \notin Range(filtered_df) /\ 1 < i /\ i < Len(df)

\* C2 as claimed: at most n rows, exactly min(n, rows); the descending
\* sequence is non-increasing; the ascending form is its reversal row for row.
C2_PureReversal ==
    Charted =>
        /\ top_n \in min_value..max_value
        /\ Len(top_flows) = Min(top_n, Len(filtered_df))
        /\ NonIncreasing(top_flows)
        /\ top_destinations = Reverse(top_flows)

\* C2 as amended: at most n rows, exactly min(n, rows); the descending
\* sequence is non-increasing; the ascending form holds the same rows with
\* the Value sequence reversed, and is the row-for-row reversal when no two
\* of the selected rows have equal Value.
C2_ReversalUpToTies ==
    Charted =>
        /\ top_n \in min_value..max_value
        /\ Len(top_flows) = Min(top_n, Len(filtered_df))
        /\ Len(top_flows) <= top_n
        /\ NonIncreasing(top_flows)
        /\ Range(top_destinations) = Range(top_flows)
        /\ Len(top_destinations) = Len(top_flows)
        /\ Column(top_destinations, "Value") = Reverse(Column(top_flows, "Value"))
        /\ ~HasTie(top_flows) => top_destinations = Reverse(top_flows)

C2_Witness ==
    /\ Charted
    /\ Len(filtered_df) > top_n
    /\ HasTie(top_flows)
    /\ top_flows[1].Value.v > top_flows[Len(top_flows)].Value.v
    /\ top_destinations # Reverse(top_flows)

\* C3: among rows of equal Value the descending sort keeps Table order.
C3_StableTies ==
    Charted =>
        \A i \in DOMAIN top_flows : \A j \in DOMAIN top_flows :
            (i < j /\ top_flows[i].Value.v = top_flows[j].Value.v)
                => top_flows[i].idx < top_flows[j].idx

\* C4: the Sankey data is the top-n subset of the bar chart in descending
\* order: link i goes from node 0, labelled with the selected origin, to node
\* i+1, labelled with the Destination of the i-th largest row, with weight
\* that row's Value truncated; all three lists have min(n, rows) entries and
\* every target is an index into labels.
C4_SankeyIsTopN ==
    Charted =>
        LET m == Min(top_n, Len(filtered_df)) IN
        /\ Len(source) = m /\ Len(target) = m /\ Len(values) = m
        /\ Len(top_flows) = m
        /\ Len(labels) = m + 1
        /\ labels[1] = selected_origin.txt
        /\ Range(top_flows) = Range(top_destinations)
        /\ Range(top_flows) \subseteq Range(filtered_df)
        /\ Cardinality(Range(top_flows)) = m
        /\ NonIncreasing(top_flows)
        /\ \A r \in Range(filtered_df) \ Range(top_flows) :
              \A i \in DOMAIN top_flows : r.Value.v <= top_flows[i].Value.v
        /\ \A i \in 1..m :
              /\ source[i] = 0
              /\ target[i] = i
              /\ 0 <= target[i] /\ target[i] < Len(labels)
              /\ labels[target[i] + 1] = top_flows[i].Destination.txt
              /\ 2 * values[i] <= top_flows[i].Value.v
              /\ top_flows[i].Value.v < 2 * values[i] + 2

C4_Witness ==
    /\ Charted
    /\ Len(filtered_df) > top_n
    /\ \E i \in DOMAIN top_flows : top_flows[i].Value.v # 2 * values[i]
    /\ \E i \in DOMAIN top_flows : top_flows[i].Value.v = 2 * values[i]

\* C5: an empty filtered subset shows the message and ends the run before
\* any metric or chart; a metric or chart on the page means the subset was
\* not empty.
C5_EmptySelectionStops ==
    /\ (Filtered /\ Len(filtered_df) = 0) =>
          /\ pc \in {"check", "stopped"}
          /\ Elements \cap Charts = {}
          /\ total_abroad = 0 /\ top_destinations = <<>> /\ top_flows = <<>>
    /\ pc = "stopped" =>
          /\ Len(filtered_df) = 0
          /\ rendered[Len(rendered)] = "error"
    /\ Elements \cap Charts # {} => (Filtered /\ Len(filtered_df) > 0)
    /\ "error" \in Elements => pc = "stopped"

C5_Witness == pc = "stopped" /\ "error" \in Elements /\ "sidebar" \in Elements

SourceRow(r) == file.rows[r.idx + 1]
GoodValue(cell) == cell.kind = "num" /\ cell.v >= 0

\* C6: every row of the Table has a numeric Value >= 0 taken from its source
\* row; a source row with a non-numeric, missing or negative Value is not in
\* the Table; a source row with a numeric Value >= 0 and no missing key is.
C6_ValuesNonNegative ==
    Loaded =>
        /\ \A r \in Range(df) :
              /\ ~r.Value.nan /\ r.Value.v >= 0
              /\ r.idx + 1 \in DOMAIN file.rows
              /\ GoodValue(SourceRow(r).Value) /\ SourceRow(r).Value.v = r.Value.v
        /\ \A i \in DOMAIN file.rows :
              /\ ~GoodValue(file.rows[i].Value) =>
                    \A r \in Range(df) : r.idx # i - 1
              /\ (/\ GoodValue(file.rows[i].Value)
                  /\ ~file.rows[i].Origin.na
                  /\ ~file.rows[i].Destination.na) =>
                    \E r \in Range(df) : r.idx = i - 1

C6_Witness ==
    /\ Loaded
    /\ \E i \in DOMAIN file.rows :
          file.rows[i].Value.kind = "num" /\ file.rows[i].Value.v < 0
    /\ \E r \in Range(df) : r.Value.v = 0

\* C7: no row of the Table has an Origin or Destination that was missing in
\* the source, and no selectable origin comes from a missing field.
C7_NoMissingKeys ==
    Loaded =>
        /\ \A r \in Range(df) :
              ~SourceRow(r).Origin.na /\ ~SourceRow(r).Destination.na
        /\ \A k \in Range(origin_countries) :
              \E i \in DOMAIN file.rows :
                  ~file.rows[i].Origin.na /\ strip(file.rows[i].Origin.txt) = k

\* C8: a run in which the load fails renders nothing of the dashboard.
C8_NoPartialRendering ==
    pc = "crashed" => Elements \subseteq {"exception"}

\* C9: in every run, after any interactions, the Table is the table the
\* first load produced and stored, which is what loading the unmodified file
\* yields; no later section changes it, and what a run computes is a function
\* of that Table and the current origin and n alone.
C9_TableImmutable ==
    /\ Loaded =>
          /\ cache.hit
          /\ df = cache.value
          /\ df = load_data(file, strKeepsNA)
    /\ Filtered =>
          /\ top_n = widgets.top_n
          /\ widgets.touched => selected_origin = Str(widgets.origin)
          /\ filtered_df = Filter(load_data(file, strKeepsNA), selected_origin)
    /\ Charted =>
          /\ top_flows = top_rows(Filter(cache.value, selected_origin), top_n, tieBreak)
          /\ top_destinations =
                TopDestinations(Filter(cache.value, selected_origin), top_n, tieBreak)

C9_Witness ==
    /\ pc = "done"
    /\ widgets.touched
    /\ widgets.top_n # value
    /\ Len(df) > Len(filtered_df)

\* C10 as claimed: the selected origin always occurs in the Origin column.
C10_SelectionObserved ==
    Filtered =>
        /\ ~selected_origin.na
        /\ selected_origin.txt \in Origins
        /\ Len(df) >= 1 => (Len(filtered_df) >= 1 /\ pc # "stopped")

\* C10 as amended: the selector offers exactly the distinct observed
\* origins, in sorted order; the selection defaults to Eritrea when present
\* and otherwise to the first option; on a Table with at least one row the
\* selected origin occurs in the Origin column, the subset is non-empty and
\* the run is not stopped; on a Table without rows there is no option and
\* the selection is None.
C10_SelectionObservedIfRows ==
    Filtered =>
        /\ Range(origin_countries) = Origins
        /\ Len(origin_countries) = Cardinality(Origins)
        /\ \A i \in DOMAIN origin_countries : \A j \in DOMAIN origin_countries :
              i < j => StrLess(origin_countries[i], origin_countries[j])
        /\ Len(df) >= 1 =>
              /\ ~selected_origin.na
              /\ selected_origin.txt \in Origins
              /\ Len(filtered_df) >= 1
              /\ pc # "stopped"
        /\ Len(df) = 0 => selected_origin = None
        /\ (~widgets.touched /\ Len(df) >= 1) =>
              selected_origin.txt =
                  IF <<"Eritrea">> \in Origins THEN <<"Eritrea">> ELSE origin_countries[1]

C10_Witness ==
    /\ Filtered
    /\ ~widgets.touched
    /\ selected_origin = Str(<<"Eritrea">>)
    /\ origin_countries[1] # <<"Eritrea">>

====
